---- MODULE Spec2Model ----
(***************************************************************************)
(* Order-management backend: registration, bearer tokens, the order        *)
(* lifecycle (create / list / cancel) and the background sweeper that      *)
(* moves pending orders to completed.                                       *)
(*                                                                          *)
(* The store is the relational database.  Every SELECT and every commit is *)
(* one atomic step on it (PostgreSQL's default READ COMMITTED); a handler  *)
(* that reads a row and later commits a change to it is two steps, and     *)
(* other handlers and the sweeper may run between them.  The ORM flushes a *)
(* changed attribute as UPDATE ... WHERE id = <pk>: the write is not       *)
(* conditional on the status that was read.                                *)
(***************************************************************************)
EXTENDS Integers, Sequences, FiniteSets, Bags, TLC

\* ---------------------------------------------------------------- bounds
MaxOrders == 2
MaxClock == 1
NumThreads == 2
TicksPerSec == 1
MaxTtl == 3
MaxPwLen == 74

\* ------------------------------------------------------- program constants
ACCESS_TOKEN_EXPIRE_MINUTES == 15
MinPasswordLen == 6
BcryptMaxBytes == 72
SECRET_KEY == "your-secret-key-change-in-production"
OtherKey == "not-the-server-key"

Emails == {"a@x.com", "b@x.com"}
\* Passwords are sequences of Unicode code points: "secret1", "secret2", "short"
Passwords == {<<115, 101, 99, 114, 101, 116, 49>>, <<115, 101, 99, 114, 101, 116, 50>>,
              <<115, 104, 111, 114, 116>>}
OrderStatus == {"pending", "processing", "completed", "cancelled"}
None == "<None>"

VARIABLES
    users,      \* table users: sequence of rows, row i has id i
    orders,     \* table orders: sequence of rows, row i has id i
    clock,      \* datetime.utcnow(), in ticks (TicksPerSec ticks per second)
    inflight,   \* bag of the requests that have read and not yet committed
    swPc,       \* process_pending_orders: "idle", or the commit it is about to make
    swBatch,    \* pending_orders: the rows of the batch not visited yet
    swCur,      \* the row the for loop is at (0: none)
    swPre,      \* status of every order when the running sweep read the table
    cancelOk,   \* ids of the orders for which a cancel_order answered 200
    jwt,        \* the token create_access_token returned last (TokenSpec)
    signed,     \* the claims, lifetime and clock of that call (TokenSpec)
    decoded,    \* what decode_token answered last, and when (TokenSpec)
    hashed      \* the last hash_password call: its argument and what it hashed (HashSpec)

vars == <<users, orders, clock, inflight, swPc, swBatch, swCur, swPre, cancelOk,
          jwt, signed, decoded, hashed>>

sweeperVars == <<swPc, swBatch, swCur, swPre>>
tokenVars == <<jwt, signed, decoded, hashed>>

\* ---------------------------------------------------------------- helpers
\* dict.get(key): None when the key is absent
Get(d, k) == IF k \in DOMAIN d THEN d[k] ELSE None

\* db.query(User).filter(User.email == email).first(): the id of the row, 0 for None
UserByEmail(email) ==
    LET hit == {i \in DOMAIN users : users[i].email = email}
    IN IF hit = {} THEN 0 ELSE CHOOSE i \in hit : \A j \in hit : i <= j

\* timegm(datetime.utcnow().utctimetuple()): whole seconds
NowSec == clock \div TicksPerSec

\* An HTTP response: status code, detail, and the rows of the body
Response(code, detail, body) == [code |-> code, detail |-> detail, body |-> body]

\* A request between its read and its commit
Request(op, order_id, email, password) ==
    [op |-> op, order_id |-> order_id, email |-> email, password |-> password]

\* One request thread per request: at most NumThreads are inside a handler
ThreadFree == BagCardinality(inflight) < NumThreads

\* ------------------------------------------------------ credential codec
\* str.encode("utf-8"): the bytes of a sequence of code points
Utf8Char(cp) ==
    IF cp < 128 THEN <<cp>>
    ELSE IF cp < 2048 THEN <<192 + (cp \div 64), 128 + (cp % 64)>>
    ELSE IF cp < 65536
    THEN <<224 + (cp \div 4096), 128 + ((cp \div 64) % 64), 128 + (cp % 64)>>
    ELSE <<240 + (cp \div 262144), 128 + ((cp \div 4096) % 64),
           128 + ((cp \div 64) % 64), 128 + (cp % 64)>>

RECURSIVE Utf8Encode(_)
Utf8Encode(s) == IF s = <<>> THEN <<>> ELSE Utf8Char(Head(s)) \o Utf8Encode(Tail(s))

\* s[:n]: the first n characters, all of s when it has fewer
Slice(s, n) == SubSeq(s, 1, IF Len(s) < n THEN Len(s) ELSE n)

\* pwd_context.hash(secret): bcrypt of the secret
pwd_context_hash(secret) == [scheme |-> "bcrypt", digest |-> secret]

\* The value hash_password hands to pwd_context.hash:
\* if len(password.encode("utf-8")) > 72: password = password[:72]
TruncatedPassword(password) ==
    IF Len(Utf8Encode(password)) > BcryptMaxBytes
    THEN Slice(password, BcryptMaxBytes)
    ELSE password

hash_password(password) == pwd_context_hash(TruncatedPassword(password))

verify_password(plain_password, hashed_password) ==
    hashed_password = [scheme |-> "bcrypt", digest |-> plain_password]

\* jwt.encode(to_encode, SECRET_KEY): exp is stored as whole seconds.
\* expires_delta is in ticks; 0 stands for the falsy values (None, timedelta(0)),
\* which take the default.
create_access_token(data, expires_delta) ==
    LET expire == IF expires_delta # 0
                  THEN clock + expires_delta
                  ELSE clock + ACCESS_TOKEN_EXPIRE_MINUTES * 60 * TicksPerSec
        to_encode == [exp |-> expire \div TicksPerSec] @@ data
    IN [payload |-> to_encode, key |-> SECRET_KEY]

\* decode_token that never checks exp
decode_token_no_expiry(token) ==
    IF token.key = SECRET_KEY
    THEN [code |-> 200, detail |-> "", payload |-> token.payload]
    ELSE [code |-> 401, detail |-> "Invalid or expired token", payload |-> <<>>]

\* decode_token that rejects from the second of exp on (exp <= now)
decode_token_expires_at_exp(token) ==
    IF token.key = SECRET_KEY /\ ~(token.payload.exp <= clock \div TicksPerSec)
    THEN [code |-> 200, detail |-> "", payload |-> token.payload]
    ELSE [code |-> 401, detail |-> "Invalid or expired token", payload |-> <<>>]

\* jwt.decode: JWTError on a signature made with another key, and on
\* exp < now (whole seconds); decode_token turns JWTError into 401.
decode_token(token) ==
    IF token.key = SECRET_KEY /\ ~(token.payload.exp < NowSec)
    THEN [code |-> 200, detail |-> "", payload |-> token.payload]
    ELSE [code |-> 401, detail |-> "Invalid or expired token", payload |-> <<>>]

\* ------------------------------------------------------ session resolver
get_current_user(token) ==
    LET dec == decode_token(token)
        email == Get(dec.payload, "sub")
        user == UserByEmail(email)
    IN IF dec.code # 200
       THEN [code |-> 401, detail |-> dec.detail, user |-> 0]
       ELSE IF email = None
       THEN [code |-> 401, detail |-> "Could not validate credentials", user |-> 0]
       ELSE IF user = 0
       THEN [code |-> 401, detail |-> "User not found", user |-> 0]
       ELSE [code |-> 200, detail |-> "", user |-> users[user].id]

\* Bearer tokens a client may present: signed with the server key, with or
\* without a subject, expired at the start or good to the end of the modelled
\* window; and one signed with another key.
MaxSec == (MaxClock \div TicksPerSec) + 1
Tokens ==
    {[payload |-> [sub |-> s, exp |-> e], key |-> SECRET_KEY] : s \in Emails, e \in {0, MaxSec}}
    \cup {[payload |-> [exp |-> MaxSec], key |-> SECRET_KEY]}
    \cup {[payload |-> [sub |-> s, exp |-> MaxSec], key |-> OtherKey] : s \in Emails}

\* ---------------------------------------------------------------- Init
Init ==
    /\ users = <<>>
    /\ orders = <<>>
    /\ clock = 0
    /\ inflight = EmptyBag
    /\ swPc = "idle"
    /\ swBatch = {}
    /\ swCur = 0
    /\ swPre = <<>>
    /\ cancelOk = {}
    /\ jwt = [payload |-> [exp |-> 0], key |-> OtherKey]
    /\ signed = [data |-> <<>>, ttl |-> 0, at |-> 0]
    /\ decoded = [code |-> 0, detail |-> "", payload |-> <<>>, at |-> 0]
    /\ hashed = [password |-> <<>>, secret |-> <<>>, calls |-> 0]

\* ------------------------------------------------------------ the clock
Tick ==
    /\ clock < MaxClock
    /\ clock' = clock + 1
    /\ UNCHANGED <<users, orders, inflight, sweeperVars, cancelOk, tokenVars>>

\* ---------------------------------------------------- POST /auth/register
\* UserRegister: password min_length 6; a body that fails validation is
\* answered 400 by validation_exception_handler before the handler runs.
UserRegister(password) == Len(password) >= MinPasswordLen

\* register_user without the SELECT for an existing user
register_user_response_no_lookup(email, password) ==
    IF ~UserRegister(password)
    THEN Response(400, "Validation error", <<>>)
    ELSE Response(0, "", <<>>)

\* What register_user answers from its SELECT; code 0: nothing yet, it goes on
\* to the INSERT.
register_user_response(email, password) ==
    IF ~UserRegister(password)
    THEN Response(400, "Validation error", <<>>)
    ELSE IF UserByEmail(email) # 0
    THEN Response(400, "Email already registered", <<>>)
    ELSE Response(0, "", <<>>)

register_user(email, password) ==
    /\ ThreadFree
    /\ IF register_user_response(email, password).code = 0
       THEN inflight' = inflight (+) SetToBag({Request("register", 0, email, password)})
       ELSE inflight' = inflight
    /\ UNCHANGED <<users, orders, clock, sweeperVars, cancelOk, tokenVars>>

\* db.add(new_user); db.commit(); db.refresh(new_user).  users.email is UNIQUE:
\* the INSERT of an email committed since the SELECT raises IntegrityError,
\* which general_exception_handler answers with 500.
register_user_commit_response(req) ==
    IF UserByEmail(req.email) # 0
    THEN Response(500, "Internal server error", <<>>)
    ELSE Response(201, "", <<[id |-> Len(users) + 1, email |-> req.email]>>)

register_user_commit(req) ==
    /\ BagIn(req, inflight)
    /\ req.op = "register"
    /\ inflight' = inflight (-) SetToBag({req})
    /\ IF register_user_commit_response(req).code = 201
       THEN users' = Append(users, [id |-> Len(users) + 1, email |-> req.email,
                                    password_hash |-> hash_password(req.password)])
       ELSE users' = users
    /\ UNCHANGED <<orders, clock, sweeperVars, cancelOk, tokenVars>>

\* ------------------------------------------------------- POST /auth/login
\* UserLogin puts no bound on the password's length.
\* A login response: status code, detail, headers, and the body
LoginResponse(code, detail, headers, body) ==
    [code |-> code, detail |-> detail, headers |-> headers, body |-> body]

\* login_user that tells the client when no user has the email
login_user_response_user_not_found(email, password) ==
    LET user == UserByEmail(email)
    IN IF user = 0
       THEN LoginResponse(404, "User not found", {}, <<>>)
       ELSE IF ~verify_password(password, users[user].password_hash)
       THEN LoginResponse(401, "Incorrect email or password",
                          {<<"WWW-Authenticate", "Bearer">>}, <<>>)
       ELSE LoginResponse(200, "", {},
                <<[access_token |->
                       create_access_token([sub |-> users[user].email],
                                           ACCESS_TOKEN_EXPIRE_MINUTES * 60 * TicksPerSec),
                   token_type |-> "bearer",
                   expires_in |-> ACCESS_TOKEN_EXPIRE_MINUTES]>>)

\* if not user or not verify_password(...): 401; else the token for user.email
login_user_response(email, password) ==
    LET user == UserByEmail(email)
        failed == IF user = 0
                  THEN TRUE
                  ELSE ~verify_password(password, users[user].password_hash)
    IN IF failed
       THEN LoginResponse(401, "Incorrect email or password",
                          {<<"WWW-Authenticate", "Bearer">>}, <<>>)
       ELSE LoginResponse(200, "", {},
                <<[access_token |->
                       create_access_token([sub |-> users[user].email],
                                           ACCESS_TOKEN_EXPIRE_MINUTES * 60 * TicksPerSec),
                   token_type |-> "bearer",
                   expires_in |-> ACCESS_TOKEN_EXPIRE_MINUTES]>>)

\* The handler reads and answers; it writes nothing.
login_user(email, password) ==
    /\ ThreadFree
    /\ login_user_response(email, password).code \in {200, 401}
    /\ UNCHANGED vars

\* ------------------------------------------------------------ POST /orders
\* Request bodies: a valid one, one with an empty product_name, one with a
\* zero and one with a negative amount, and valid ones that also carry a
\* user_id of the client's choice.
Bodies ==
    {[product_name |-> "Widget", amount |-> 1, user_id |-> 0],
     [product_name |-> "", amount |-> 1, user_id |-> 0],
     [product_name |-> "Widget", amount |-> 0, user_id |-> 0],
     [product_name |-> "Widget", amount |-> -1, user_id |-> 0],
     [product_name |-> "Widget", amount |-> 1, user_id |-> 1],
     [product_name |-> "Widget", amount |-> 1, user_id |-> 2]}

\* OrderCreate without the bound on amount
OrderCreate_any_amount(body) ==
    IF Len(body.product_name) >= 1
    THEN [code |-> 200, product_name |-> body.product_name, amount |-> body.amount]
    ELSE [code |-> 0, product_name |-> "", amount |-> 0]

\* OrderCreate: product_name min_length 1, amount gt 0; the schema has no other
\* field, so whatever else the body carries is dropped (code 0: invalid).
OrderCreate(body) ==
    IF Len(body.product_name) >= 1 /\ body.amount > 0
    THEN [code |-> 200, product_name |-> body.product_name, amount |-> body.amount]
    ELSE [code |-> 0, product_name |-> "", amount |-> 0]

\* an order that is created already in processing
NewOrder_processing(current_user, order_data) ==
    [id |-> Len(orders) + 1, user_id |-> current_user,
     product_name |-> order_data.product_name, amount |-> order_data.amount,
     status |-> "processing", created_at |-> clock]

\* Order(user_id=current_user.id, ..., status=PENDING), created_at by default
NewOrder(current_user, order_data) ==
    [id |-> Len(orders) + 1, user_id |-> current_user,
     product_name |-> order_data.product_name, amount |-> order_data.amount,
     status |-> "pending", created_at |-> clock]

\* create_order that takes the owner from the body when the body names one
create_order_response_client_owner(token, body) ==
    LET auth == get_current_user(token)
        order_data == OrderCreate(body)
    IN IF auth.code # 200
       THEN Response(auth.code, auth.detail, <<>>)
       ELSE IF order_data.code # 200
       THEN Response(400, "Validation error", <<>>)
       ELSE Response(201, "", <<NewOrder(IF body.user_id # 0 THEN body.user_id ELSE auth.user,
                                         order_data)>>)

create_order_response(token, body) ==
    LET auth == get_current_user(token)
        order_data == OrderCreate(body)
    IN IF auth.code # 200
       THEN Response(auth.code, auth.detail, <<>>)
       ELSE IF order_data.code # 200
       THEN Response(400, "Validation error", <<>>)
       ELSE Response(201, "", <<NewOrder(auth.user, order_data)>>)

create_order(token, body) ==
    LET r == create_order_response(token, body)
    IN /\ ThreadFree
       /\ IF r.code = 201
          THEN /\ Len(orders) < MaxOrders
               /\ orders' = Append(orders, r.body[1])
          ELSE orders' = orders
       /\ UNCHANGED <<users, clock, inflight, sweeperVars, cancelOk, tokenVars>>

\* ------------------------------------------------------------- GET /orders
\* the query without its filter
OrdersOf_unfiltered(user_id) == DOMAIN orders

\* .filter(Order.user_id == current_user.id)
OrdersOf(user_id) == {i \in DOMAIN orders : orders[i].user_id = user_id}

\* .order_by(Order.created_at.desc()).all(): rows of equal created_at come in
\* any order
OrderByCreatedAtDesc(ids) ==
    {[i \in DOMAIN s |-> orders[s[i]]] :
        s \in {q \in [1..Cardinality(ids) -> ids] :
                 /\ \A i, j \in DOMAIN q : i # j => q[i] # q[j]
                 /\ \A i, j \in DOMAIN q :
                        i < j => orders[q[i]].created_at >= orders[q[j]].created_at}}

\* The responses get_user_orders may give: {"orders": orders, "total": len(orders)}
get_user_orders_responses(token) ==
    LET auth == get_current_user(token)
    IN IF auth.code # 200
       THEN {[code |-> auth.code, detail |-> auth.detail, body |-> <<>>, total |-> 0]}
       ELSE {[code |-> 200, detail |-> "", body |-> rows, total |-> Len(rows)] :
                rows \in OrderByCreatedAtDesc(OrdersOf(auth.user))}

get_user_orders(token) ==
    /\ ThreadFree
    /\ get_user_orders_responses(token) # {}
    /\ UNCHANGED vars

\* ------------------------------------------------ PATCH /orders/{id}/cancel
\* db.query(Order).filter(Order.id == order_id).first(): the id of the row, 0 for None
OrderById(order_id) == IF order_id \in DOMAIN orders THEN order_id ELSE 0

\* cancel_order with the status check made before the ownership check
cancel_order_response_status_first(token, order_id) ==
    LET auth == get_current_user(token)
        order == OrderById(order_id)
    IN IF auth.code # 200
       THEN Response(auth.code, auth.detail, <<>>)
       ELSE IF order = 0
       THEN Response(404, "Order not found", <<>>)
       ELSE IF orders[order].status # "pending"
       THEN Response(400, "Cannot cancel order with status: " \o orders[order].status, <<>>)
       ELSE IF orders[order].user_id # auth.user
       THEN Response(403, "You can only cancel your own orders", <<>>)
       ELSE Response(0, "", <<>>)

\* What cancel_order answers from its SELECTs: the first check that fails
\* decides; code 0: nothing yet, it goes on to the UPDATE.
cancel_order_response(token, order_id) ==
    LET auth == get_current_user(token)
        order == OrderById(order_id)
    IN IF auth.code # 200
       THEN Response(auth.code, auth.detail, <<>>)
       ELSE IF order = 0
       THEN Response(404, "Order not found", <<>>)
       ELSE IF orders[order].user_id # auth.user
       THEN Response(403, "You can only cancel your own orders", <<>>)
       ELSE IF orders[order].status # "pending"
       THEN Response(400, "Cannot cancel order with status: " \o orders[order].status, <<>>)
       ELSE Response(0, "", <<>>)

\* cancel_order that goes on to the UPDATE although a check on the row failed
cancel_order_unchecked(token, order_id) ==
    /\ ThreadFree
    /\ IF cancel_order_response(token, order_id).code \in {0, 403, 400}
       THEN inflight' = inflight (+) SetToBag({Request("cancel", order_id, "", <<>>)})
       ELSE inflight' = inflight
    /\ UNCHANGED <<users, orders, clock, sweeperVars, cancelOk, tokenVars>>

cancel_order(token, order_id) ==
    /\ ThreadFree
    /\ IF cancel_order_response(token, order_id).code = 0
       THEN inflight' = inflight (+) SetToBag({Request("cancel", order_id, "", <<>>)})
       ELSE inflight' = inflight
    /\ UNCHANGED <<users, orders, clock, sweeperVars, cancelOk, tokenVars>>

\* order.status = CANCELLED; db.commit(); db.refresh(order); return order.
\* The flush is UPDATE orders SET status = 'cancelled' WHERE id = order_id.
CancelledRow(order_id) == [orders[order_id] EXCEPT !.status = "cancelled"]

\* a commit that answers 400 when the row is no longer pending
cancel_order_commit_response_checked(req) ==
    IF orders[req.order_id].status # "pending"
    THEN Response(400, "Cannot cancel order with status: " \o orders[req.order_id].status, <<>>)
    ELSE Response(200, "", <<CancelledRow(req.order_id)>>)

cancel_order_commit_response(req) == Response(200, "", <<CancelledRow(req.order_id)>>)

cancel_order_commit(req) ==
    /\ BagIn(req, inflight)
    /\ req.op = "cancel"
    /\ inflight' = inflight (-) SetToBag({req})
    /\ orders' = [orders EXCEPT ![req.order_id] = CancelledRow(req.order_id)]
    /\ cancelOk' = cancelOk \cup {req.order_id}
    /\ UNCHANGED <<users, clock, sweeperVars, tokenVars>>

\* ----------------------------------------------------- lifecycle sweeper
\* The scheduler runs one instance of the job at a time (add_job's default),
\* so a run starts only when none is in progress.
\* pending_orders = db.query(Order).filter(status == PENDING).all()
PendingOrders == {i \in DOMAIN orders : orders[i].status = "pending"}

sweep_read ==
    /\ swPc = "idle"
    /\ IF PendingOrders = {}
       THEN UNCHANGED sweeperVars
       ELSE /\ \E first \in PendingOrders :
                  /\ swCur' = first
                  /\ swBatch' = PendingOrders \ {first}
            /\ swPc' = "processing"
            /\ swPre' = [i \in DOMAIN orders |-> orders[i].status]
    /\ UNCHANGED <<users, orders, clock, inflight, cancelOk, tokenVars>>

\* a run that marks its whole batch processing in one commit
sweep_commit_processing_whole_batch ==
    /\ swPc = "processing"
    /\ orders' = [i \in DOMAIN orders |->
                     IF i \in swBatch \cup {swCur}
                     THEN [orders[i] EXCEPT !.status = "processing"]
                     ELSE orders[i]]
    /\ swPc' = "completed"
    /\ UNCHANGED <<users, clock, inflight, swBatch, swCur, swPre, cancelOk, tokenVars>>

\* order.status = PROCESSING; db.commit()
sweep_commit_processing ==
    /\ swPc = "processing"
    /\ orders' = [orders EXCEPT ![swCur].status = "processing"]
    /\ swPc' = "completed"
    /\ UNCHANGED <<users, clock, inflight, swBatch, swCur, swPre, cancelOk, tokenVars>>

\* a run that goes on to the next row without storing completed
sweep_commit_completed_not_stored ==
    /\ swPc = "completed"
    /\ orders' = orders
    /\ IF swBatch = {}
       THEN /\ swPc' = "idle"
            /\ swCur' = 0
            /\ swBatch' = {}
            /\ swPre' = <<>>
       ELSE /\ \E next \in swBatch :
                  /\ swCur' = next
                  /\ swBatch' = swBatch \ {next}
            /\ swPc' = "processing"
            /\ swPre' = swPre
    /\ UNCHANGED <<users, clock, inflight, cancelOk, tokenVars>>

\* order.status = COMPLETED; db.commit(); then the next row of the batch, or
\* the end of the run.
sweep_commit_completed ==
    /\ swPc = "completed"
    /\ orders' = [orders EXCEPT ![swCur].status = "completed"]
    /\ IF swBatch = {}
       THEN /\ swPc' = "idle"
            /\ swCur' = 0
            /\ swBatch' = {}
            /\ swPre' = <<>>
       ELSE /\ \E next \in swBatch :
                  /\ swCur' = next
                  /\ swBatch' = swBatch \ {next}
            /\ swPc' = "processing"
            /\ swPre' = swPre
    /\ UNCHANGED <<users, clock, inflight, cancelOk, tokenVars>>

\* a rollback that undoes the run's earlier commits as well
sweep_error_undoes_run ==
    /\ swPc \in {"processing", "completed"}
    /\ orders' = [i \in DOMAIN orders |->
                     IF i \in DOMAIN swPre
                     THEN [orders[i] EXCEPT !.status = swPre[i]]
                     ELSE orders[i]]
    /\ swPc' = "idle"
    /\ swCur' = 0
    /\ swBatch' = {}
    /\ swPre' = <<>>
    /\ UNCHANGED <<users, clock, inflight, cancelOk, tokenVars>>

\* except Exception: db.rollback(). A commit that raises leaves the row as
\* committed before; the run ends, the rest of the batch is not visited.
sweep_error ==
    /\ swPc \in {"processing", "completed"}
    /\ swPc' = "idle"
    /\ swCur' = 0
    /\ swBatch' = {}
    /\ swPre' = <<>>
    /\ UNCHANGED <<users, orders, clock, inflight, cancelOk, tokenVars>>

process_pending_orders ==
    \/ sweep_read
    \/ sweep_commit_processing
    \/ sweep_commit_completed
    \/ sweep_error

\* --------------------------------------------------------- process restart
\* The server runs under uvicorn with reload=True, and lifespan's shutdown
\* part does not stop the scheduler: when the process goes down the
\* scheduler's daemon thread ends wherever the run is, and the requests that
\* have not committed are gone with it.  The database keeps what was committed.
restart ==
    /\ swPc' = "idle"
    /\ swCur' = 0
    /\ swBatch' = {}
    /\ swPre' = <<>>
    /\ inflight' = EmptyBag
    /\ UNCHANGED <<users, orders, clock, cancelOk, tokenVars>>

\* ---------------------------------------------------------------- Next
\* Spec: the whole system.  Every user registers with the same password here;
\* RegSpec varies the passwords.
OnePassword == {<<115, 101, 99, 114, 101, 116, 49>>, <<115, 104, 111, 114, 116>>}

Requests(pw) == {Request("cancel", i, "", <<>>) : i \in 1..MaxOrders}
                \cup {Request("register", 0, e, p) : e \in Emails, p \in pw}

Next ==
    \/ Tick
    \/ \E email \in Emails, password \in OnePassword : register_user(email, password)
    \/ \E req \in Requests(OnePassword) : register_user_commit(req)
    \/ \E email \in Emails, password \in OnePassword : login_user(email, password)
    \/ \E token \in Tokens, body \in Bodies : create_order(token, body)
    \/ \E token \in Tokens : get_user_orders(token)
    \/ \E token \in Tokens, order_id \in 1..(MaxOrders + 1) : cancel_order(token, order_id)
    \/ \E req \in Requests(OnePassword) : cancel_order_commit(req)
    \/ process_pending_orders
    \/ restart

Spec == Init /\ [][Next]_vars

\* FairSpec: the system with no failing run and no restart.  The scheduler
\* starts process_pending_orders every 120 seconds for as long as the process
\* lives, and a run that does not fail makes its next commit: the sweeper's
\* steps are weakly fair.  Nothing obliges a client to send a request or a
\* request in flight to commit.
SweeperStep ==
    \/ sweep_read
    \/ sweep_commit_processing
    \/ sweep_commit_completed

FairNext ==
    \/ Tick
    \/ \E email \in Emails, password \in OnePassword : register_user(email, password)
    \/ \E req \in Requests(OnePassword) : register_user_commit(req)
    \/ \E email \in Emails, password \in OnePassword : login_user(email, password)
    \/ \E token \in Tokens, body \in Bodies : create_order(token, body)
    \/ \E token \in Tokens : get_user_orders(token)
    \/ \E token \in Tokens, order_id \in 1..(MaxOrders + 1) : cancel_order(token, order_id)
    \/ \E req \in Requests(OnePassword) : cancel_order_commit(req)
    \/ sweep_read
    \/ sweep_commit_processing
    \/ sweep_commit_completed

FairSpec == Init /\ [][FairNext]_vars /\ WF_vars(SweeperStep)

\* RegSpec: registration alone, with every password of Passwords and one
\* more email.
RegEmails == Emails \cup {"c@x.com"}

RegRequests == {Request("register", 0, e, p) : e \in RegEmails, p \in Passwords}

RegNext ==
    \/ \E email \in RegEmails, password \in Passwords : register_user(email, password)
    \/ \E req \in RegRequests : register_user_commit(req)
    \/ \E email \in RegEmails, password \in Passwords : login_user(email, password)

RegSpec == Init /\ [][RegNext]_vars

\* TokenSpec: create_access_token and decode_token against the clock.
\* Lifetimes are 1..MaxTtl ticks; the clock runs past the longest of them.
Claims ==
    {[sub |-> e] : e \in Emails} \cup {[sub |-> "a@x.com", role |-> "admin"]}

TokHorizon == MaxClock + MaxTtl + TicksPerSec + 1

token_tick ==
    /\ clock < TokHorizon
    /\ clock' = clock + 1
    /\ UNCHANGED <<users, orders, inflight, sweeperVars, cancelOk, tokenVars>>

token_sign(data, ttl) ==
    /\ clock <= MaxClock
    /\ jwt' = create_access_token(data, ttl)
    /\ signed' = [data |-> data, ttl |-> ttl, at |-> clock]
    /\ decoded' = [code |-> 0, detail |-> "", payload |-> <<>>, at |-> clock]
    /\ UNCHANGED <<users, orders, clock, inflight, sweeperVars, cancelOk, hashed>>

token_decode ==
    /\ signed.ttl # 0
    /\ decoded' = [at |-> clock] @@ decode_token(jwt)
    /\ UNCHANGED <<users, orders, clock, inflight, sweeperVars, cancelOk, jwt, signed, hashed>>

TokenNext ==
    \/ token_tick
    \/ \E data \in Claims, ttl \in 1..MaxTtl : token_sign(data, ttl)
    \/ token_decode

TokenSpec == Init /\ [][TokenNext]_vars

\* HashSpec: hash_password alone, on passwords of up to MaxPwLen characters:
\* runs of one character of each UTF-8 width (a, e-acute, euro sign, an
\* emoji), and runs of ASCII that end in one emoji.
Chars == {97, 233, 8364, 128512}

HashInputs ==
    {[i \in 1..n |-> c] : n \in 0..MaxPwLen, c \in Chars}
    \cup {[i \in 1..n |-> IF i < n THEN 97 ELSE 128512] : n \in 1..MaxPwLen}

hash_password_call(password) ==
    /\ hashed' = [password |-> password,
                  secret |-> hash_password(password).digest,
                  calls |-> 1]
    /\ UNCHANGED <<users, orders, clock, inflight, sweeperVars, cancelOk, jwt, signed, decoded>>

HashNext == \E password \in HashInputs : hash_password_call(password)

HashSpec == Init /\ [][HashNext]_vars

\* ================================================================ claims
Terminal == {"completed", "cancelled"}

LegalTransitions ==
    {<<"pending", "processing">>, <<"processing", "completed">>, <<"pending", "cancelled">>}

\* C1: every change of a stored order's status is pending -> processing,
\* processing -> completed or pending -> cancelled.
C1_OnlyLegalTransitions ==
    [][\A i \in DOMAIN orders :
          orders'[i].status # orders[i].status
              => <<orders[i].status, orders'[i].status>> \in LegalTransitions]_vars

\* C2: once an order's committed status is completed or cancelled it never
\* changes again.
C2_TerminalIsImmutable ==
    [][\A i \in DOMAIN orders :
          orders[i].status \in Terminal => orders'[i].status = orders[i].status]_vars

\* The user a token resolves to, 0 when it does not resolve
Caller(token) == get_current_user(token).user

\* C3: cancel_order answers 404 when no order has the id; otherwise 403 when
\* the requester is not the owner, whatever the status; otherwise 400 when the
\* status is not pending; and goes on to the update only when all three pass.
C3_CancelCheckOrder ==
    \A token \in Tokens, order_id \in 1..(MaxOrders + 1) :
        LET r == cancel_order_response(token, order_id)
            exists == order_id \in DOMAIN orders
            owner == exists /\ orders[order_id].user_id = Caller(token)
            pending == exists /\ orders[order_id].status = "pending"
        IN Caller(token) # 0 =>
              /\ r.code = 404 <=> ~exists
              /\ r.code = 403 <=> (exists /\ ~owner)
              /\ r.code = 400 <=> (exists /\ owner /\ ~pending)
              /\ r.code = 0 <=> (exists /\ owner /\ pending)
              /\ r.code \in {404, 403, 400, 0}

\* C3 witness: a user who is not the owner asks to cancel a completed or
\* cancelled order and is answered 403.
C3_Witness ==
    \E token \in Tokens, order_id \in DOMAIN orders :
        /\ Caller(token) # 0
        /\ orders[order_id].user_id # Caller(token)
        /\ orders[order_id].status \in Terminal
        /\ cancel_order_response(token, order_id).code = 403

\* C4: when a sweeper run ends, every order that was pending when it began is
\* completed, and no order that was completed or cancelled then has changed.
C4_SweeperTick ==
    [][(swPc = "completed" /\ swBatch = {} /\ sweep_commit_completed)
          => \A i \in DOMAIN swPre :
                 /\ swPre[i] = "pending" => orders'[i].status = "completed"
                 /\ swPre[i] \in Terminal => orders'[i].status = swPre[i]]_vars

\* C5: a cancel by the owner that succeeds takes the order from pending to
\* cancelled, and every later get_user_orders of the owner shows it cancelled.
C5_CancelThenList ==
    /\ [][\A req \in Requests(OnePassword) :
             cancel_order_commit(req)
                 => /\ orders[req.order_id].status = "pending"
                    /\ orders'[req.order_id].status = "cancelled"]_vars
    /\ [](\A i \in cancelOk, token \in Tokens :
             Caller(token) = orders[i].user_id
                 => \A r \in get_user_orders_responses(token) :
                        \E k \in DOMAIN r.body :
                            r.body[k].id = i /\ r.body[k].status = "cancelled")

\* C6: a successful create_order adds exactly one order, pending and owned by
\* the user the token resolves to, and changes no other order and no user.
C6_CreateAddsOnePendingOrder ==
    [][\/ orders' = orders
       \/ \A token \in Tokens, body \in Bodies :
             (create_order_response(token, body).code = 201 /\ create_order(token, body))
                 => /\ Len(orders') = Len(orders) + 1
                    /\ orders'[Len(orders')].status = "pending"
                    /\ orders'[Len(orders')].user_id = UserByEmail(Get(token.payload, "sub"))
                    /\ \A i \in DOMAIN orders : orders'[i] = orders[i]
                    /\ users' = users]_vars

\* C6 witness: two orders have been created, by different users.
C6_Witness ==
    /\ Len(orders) = 2
    /\ orders[1].user_id # orders[2].user_id
    /\ orders[2].status = "pending"

\* C7: get_user_orders returns exactly the caller's orders, newest first, with
\* total the number returned, nothing when the caller owns none, and changes
\* no state.
C7_ListIsCallersOrdersNewestFirst ==
    /\ [](\A token \in Tokens :
             Caller(token) # 0 =>
                 /\ get_user_orders_responses(token) # {}
                 /\ \A r \in get_user_orders_responses(token) :
                        LET owned == {i \in DOMAIN orders : orders[i].user_id = Caller(token)}
                        IN /\ r.code = 200
                           /\ {r.body[k].id : k \in DOMAIN r.body} = owned
                           /\ Len(r.body) = Cardinality(owned)
                           /\ \A k \in DOMAIN r.body : r.body[k] = orders[r.body[k].id]
                           /\ \A k \in 1..(Len(r.body) - 1) :
                                  r.body[k].created_at >= r.body[k + 1].created_at
                           /\ r.total = Len(r.body)
                           /\ owned = {} => (r.body = <<>> /\ r.total = 0))
    /\ [][\A token \in Tokens : get_user_orders(token) => UNCHANGED vars]_vars

\* C7 witness: a user who owns two orders created at different times, and can
\* list them.
C7_Witness ==
    /\ Len(orders) = 2
    /\ orders[1].user_id = orders[2].user_id
    /\ orders[1].created_at < orders[2].created_at
    /\ \E token \in Tokens : Caller(token) = orders[1].user_id

Resolves(token) ==
    /\ token.key = SECRET_KEY
    /\ token.payload.exp >= clock \div TicksPerSec
    /\ "sub" \in DOMAIN token.payload
    /\ \E i \in DOMAIN users : users[i].email = token.payload.sub

\* C9: get_current_user returns a user exactly when the token verifies, has a
\* subject and a user with that email exists, and answers 401 otherwise; with
\* such a token create_order, get_user_orders and cancel_order answer 401 and
\* change neither orders nor users (no step that changes them is a step of one
\* of the three with a token that does not resolve).
C9_UnauthenticatedChangesNothing ==
    /\ [](\A token \in Tokens :
             LET r == get_current_user(token)
             IN /\ Resolves(token)
                    => (r.code = 200 /\ r.user # 0 /\ users[r.user].email = token.payload.sub)
                /\ ~Resolves(token) => (r.code = 401 /\ r.user = 0))
    /\ [](\A token \in Tokens, body \in Bodies, order_id \in 1..(MaxOrders + 1) :
             ~Resolves(token) =>
                 /\ create_order_response(token, body).code = 401
                 /\ cancel_order_response(token, order_id).code = 401
                 /\ \A r \in get_user_orders_responses(token) : r.code = 401 /\ r.body = <<>>)
    /\ [][\/ UNCHANGED <<users, orders, inflight>>
          \/ \A token \in Tokens :
                ~Resolves(token) =>
                    /\ \A body \in Bodies : ~create_order(token, body)
                    /\ ~get_user_orders(token)
                    /\ \A order_id \in 1..(MaxOrders + 1) : ~cancel_order(token, order_id)]_vars

\* C9 witness: with orders stored, one token resolves and three others fail,
\* one expired, one without subject, one naming no stored user.
C9_Witness ==
    /\ Len(orders) >= 1
    /\ \E ok, expired, nosub, nouser \in Tokens :
          /\ Resolves(ok)
          /\ expired.key = SECRET_KEY /\ expired.payload.exp < clock \div TicksPerSec
          /\ get_current_user(expired).code = 401
          /\ nosub.key = SECRET_KEY /\ "sub" \notin DOMAIN nosub.payload
          /\ get_current_user(nosub).code = 401
          /\ nouser.key = SECRET_KEY /\ nouser.payload.exp >= clock \div TicksPerSec
          /\ "sub" \in DOMAIN nouser.payload
          /\ get_current_user(nouser).detail = "User not found"

\* The claims decode_token returned are the claims that were signed
SameClaims == \A k \in DOMAIN signed.data : Get(decoded.payload, k) = signed.data[k]

\* C10 as stated: decoded at the clock of signing the token gives the claims
\* back; decoded once ttl has elapsed it is refused.
C10_RoundTripUntilTtl ==
    decoded.code # 0 =>
        /\ decoded.at = signed.at => (decoded.code = 200 /\ SameClaims)
        /\ decoded.at >= signed.at + signed.ttl => decoded.code = 401

\* C10 amended: decode_token gives the claims back as long as the clock's
\* whole second is not past the whole second of signing time plus ttl, so
\* also at the instant ttl has elapsed; it is refused from then on, at the
\* latest one second after ttl has elapsed.
C10_RoundTripUntilExpSecond ==
    decoded.code # 0 =>
        LET exp == (signed.at + signed.ttl) \div TicksPerSec
            now == decoded.at \div TicksPerSec
        IN /\ decoded.at = signed.at => (decoded.code = 200 /\ SameClaims)
           /\ now <= exp => (decoded.code = 200 /\ SameClaims)
           /\ now > exp => decoded.code = 401
           /\ decoded.at >= signed.at + signed.ttl + TicksPerSec => decoded.code = 401

\* C10 witness: a token decoded successfully when its ttl had just elapsed.
C10_Witness ==
    /\ decoded.code = 200
    /\ signed.ttl > 0
    /\ decoded.at = signed.at + signed.ttl

\* C11: a login with an email no user has and a login with a stored email and
\* a wrong password get the same response, 401 "Incorrect email or password"
\* with the WWW-Authenticate: Bearer header, and no login changes any state.
C11_LoginFailuresAlike ==
    /\ [](\A unknown, known \in RegEmails, p1, p2 \in Passwords :
             (/\ \A i \in DOMAIN users : users[i].email # unknown
              /\ \E i \in DOMAIN users :
                     /\ users[i].email = known
                     /\ users[i].password_hash # hash_password(p2))
                 => /\ login_user_response(unknown, p1) = login_user_response(known, p2)
                    /\ login_user_response(unknown, p1) =
                           LoginResponse(401, "Incorrect email or password",
                                         {<<"WWW-Authenticate", "Bearer">>}, <<>>))
    /\ [][\A email \in RegEmails, password \in Passwords :
             login_user(email, password) => UNCHANGED vars]_vars

\* C11 witness: one email is registered and another is not; a wrong password
\* for the first and any password for the second are both answered 401, and
\* the right password for the first is answered 200.
C11_Witness ==
    \E unknown, known \in RegEmails, wrong, right \in Passwords :
        /\ \A i \in DOMAIN users : users[i].email # unknown
        /\ \E i \in DOMAIN users :
               /\ users[i].email = known
               /\ users[i].password_hash = hash_password(right)
        /\ wrong # right
        /\ login_user_response(known, wrong).code = 401
        /\ login_user_response(unknown, right).code = 401
        /\ login_user_response(known, right).code = 200

\* C12: for every input, multi-byte characters included, the value
\* hash_password hands to the hash primitive encodes to at most 72 bytes.
C12_HashedAtMost72Bytes ==
    hashed.calls > 0 => Len(Utf8Encode(hashed.secret)) <= BcryptMaxBytes

\* C13: an error in a sweeper run rolls back only the change not yet
\* committed: the step leaves every stored order as it is (the orders the run
\* completed stay completed, the rest of the batch is not touched), ends the
\* run, and reaches no request and no user; the next run starts from idle and
\* takes every order that is then pending.
C13_ErrorRollsBackCurrentOnly ==
    /\ [][sweep_error
             => /\ orders' = orders
                /\ swPc' = "idle" /\ swCur' = 0 /\ swBatch' = {}
                /\ UNCHANGED <<users, inflight, cancelOk, clock>>]_vars
    /\ [][(swPc = "idle" /\ swPc' # "idle")
             => /\ {swCur'} \cup swBatch' = PendingOrders
                /\ orders' = orders]_vars

\* C13 witness: a run completed order 1, committed processing for order 2 and
\* then failed: the sweeper is idle, order 1 is completed and order 2 is
\* still processing.
C13_Witness ==
    /\ swPc = "idle"
    /\ Len(orders) = 2
    /\ orders[1].status = "completed"
    /\ orders[2].status = "processing"

\* C14: an order whose committed status is processing while the sweeper is
\* not at it (its run failed, or the process restarted) stays in processing:
\* no step changes its status.
C14_ProcessingIsStuck ==
    [][\A i \in DOMAIN orders :
          (orders[i].status = "processing" /\ swCur # i)
              => orders'[i].status = "processing"]_vars

\* C15: two cancel_order requests of the owner that both read the order as
\* pending both succeed: every cancel that has passed its checks commits
\* cancelled and answers 200 with the cancelled order, whatever has been
\* committed to the order since it read it, so the status after the second
\* commit is cancelled.
C15_BothCancelsSucceed ==
    [][\A req \in Requests(OnePassword) :
          cancel_order_commit(req)
              => /\ cancel_order_commit_response(req).code = 200
                 /\ cancel_order_commit_response(req).body[1].status = "cancelled"
                 /\ orders'[req.order_id].status = "cancelled"
                 /\ req.order_id \in cancelOk']_vars

\* C15 witness: two cancel requests for one order read it as pending; one has
\* committed and been answered 200, the order is cancelled, and the other has
\* still to commit.
C15_Witness ==
    \E i \in DOMAIN orders :
        /\ i \in cancelOk
        /\ orders[i].status = "cancelled"
        /\ BagIn(Request("cancel", i, "", <<>>), inflight)

\* A step of one of the operations an end user can call
UserOperation ==
    \/ \E email \in Emails, password \in OnePassword : register_user(email, password)
    \/ \E req \in Requests(OnePassword) : register_user_commit(req)
    \/ \E email \in Emails, password \in OnePassword : login_user(email, password)
    \/ \E token \in Tokens, body \in Bodies : create_order(token, body)
    \/ \E token \in Tokens : get_user_orders(token)
    \/ \E token \in Tokens, order_id \in 1..(MaxOrders + 1) : cancel_order(token, order_id)
    \/ \E req \in Requests(OnePassword) : cancel_order_commit(req)

\* C16: a step of a user operation stores only pending (in a new order) and
\* cancelled (in an existing one); every step that stores processing or
\* completed in an order is a commit of process_pending_orders.
C16_UsersWriteOnlyPendingAndCancelled ==
    [][\/ orders' = orders
       \/ /\ UserOperation
                => \A i \in DOMAIN orders' :
                       IF i \in DOMAIN orders
                       THEN orders'[i].status \in {orders[i].status, "cancelled"}
                       ELSE orders'[i].status = "pending"
          /\ (\E i \in DOMAIN orders' :
                  /\ orders'[i].status \in {"processing", "completed"}
                  /\ i \in DOMAIN orders => orders'[i].status # orders[i].status)
                => (sweep_commit_processing \/ sweep_commit_completed)]_vars

\* C16 witness: a user has created two orders and cancelled the first, and
\* the sweeper has stored processing in the second.
C16_Witness ==
    /\ Len(orders) = 2
    /\ 1 \in cancelOk
    /\ orders[1].status = "cancelled"
    /\ orders[2].status = "processing"

\* C17: every order's user_id is the id of exactly one stored user, its
\* amount is greater than zero, and no step changes the user_id or the amount
\* of a stored order or removes an order or a user.
C17_OwnerExistsAndIsFixed ==
    /\ [](\A i \in DOMAIN orders :
             /\ Cardinality({u \in DOMAIN users : users[u].id = orders[i].user_id}) = 1
             /\ orders[i].amount > 0)
    /\ [][\/ UNCHANGED <<users, orders>>
          \/ /\ Len(orders') >= Len(orders)
             /\ Len(users') >= Len(users)
             /\ \A u \in DOMAIN users : users'[u] = users[u]
             /\ \A i \in DOMAIN orders :
                    /\ orders'[i].user_id = orders[i].user_id
                    /\ orders'[i].amount = orders[i].amount
                    /\ orders'[i].id = orders[i].id]_vars

\* C17 witness: two orders of two different users, one cancelled by its owner
\* and one completed by the sweeper.
C17_Witness ==
    /\ Len(orders) = 2
    /\ orders[1].user_id # orders[2].user_id
    /\ orders[1].status = "cancelled"
    /\ orders[2].status = "completed"

\* C18: a cancel_order that is answered 404, 403 or 400 changes nothing: no
\* order and no user is changed, added or removed and nothing is left to
\* commit.  A cancel by the owner of an order that is already cancelled is
\* answered 400 "Cannot cancel order with status: cancelled".
C18_FailedCancelChangesNothing ==
    /\ [][\/ UNCHANGED <<users, orders, inflight, cancelOk>>
          \/ \A token \in Tokens, order_id \in 1..(MaxOrders + 1) :
                cancel_order_response(token, order_id).code \in {404, 403, 400}
                    => ~cancel_order(token, order_id)]_vars
    /\ [](\A token \in Tokens, i \in DOMAIN orders :
             (Caller(token) = orders[i].user_id /\ orders[i].status = "cancelled")
                 => cancel_order_response(token, i) =
                        Response(400, "Cannot cancel order with status: cancelled", <<>>))

\* C18 witness: an order was cancelled with 200, no request is in flight, and
\* its owner's next cancel is answered 400; for the same caller an id that no
\* order has is answered 404, and another user is answered 403.
C18_Witness ==
    \E i \in cancelOk, owner, other \in Tokens :
        /\ inflight = EmptyBag
        /\ orders[i].status = "cancelled"
        /\ Caller(owner) = orders[i].user_id
        /\ cancel_order_response(owner, i).code = 400
        /\ cancel_order_response(owner, Len(orders) + 1).code = 404
        /\ Caller(other) # 0
        /\ cancel_order_response(other, i).code = 403

\* C19: with the sweeper's steps weakly fair and no failing run or restart,
\* every order that is created is at some later time completed or cancelled,
\* and an order that is never cancelled is at some later time completed.
C19_EveryOrderEndsTerminal ==
    \A i \in 1..MaxOrders :
        /\ (Len(orders) >= i) ~> (Len(orders) >= i /\ orders[i].status \in Terminal)
        /\ \/ <>(Len(orders) >= i /\ orders[i].status = "cancelled")
           \/ (Len(orders) >= i) ~> (Len(orders) >= i /\ orders[i].status = "completed")

\* C19 witness: the sweeper has completed one order and the other has been
\* cancelled by its owner.
C19_Witness ==
    /\ Len(orders) = 2
    /\ orders[1].status = "completed"
    /\ orders[2].status = "cancelled"
    /\ 2 \in cancelOk
    /\ swPc = "idle"

\* C20: with no failing run and no restart, an order whose committed status
\* is processing is the one the running sweeper is at, between its two
\* commits: at most one order is in processing at any moment, and none is
\* while no run is in progress.
C20_OneOrderInProcessing ==
    /\ Cardinality({i \in DOMAIN orders : orders[i].status = "processing"}) <= 1
    /\ \A i \in DOMAIN orders :
           orders[i].status = "processing" => (swPc = "completed" /\ swCur = i)
    /\ swPc = "idle" => \A i \in DOMAIN orders : orders[i].status # "processing"

\* C20 witness: a run with two orders in its batch has committed processing
\* for the first and not yet touched the second.
C20_Witness ==
    /\ swPc = "completed"
    /\ orders[swCur].status = "processing"
    /\ swBatch # {}
    /\ \A j \in swBatch : orders[j].status = "pending"

====
